---- MODULE Spec2Model ----
(***************************************************************************)
(* Position reconciliation of spotify-sync: the seek calculators of        *)
(* lib/redis-client.ts and lib/redis-room-sync.ts, the host snapshot store *)
(* and the member / owner tick of hooks/useRoomSync.ts.                    *)
(*                                                                         *)
(* Times and positions are integer milliseconds.  The JavaScript numbers   *)
(* of the source are doubles; the input sets below are chosen so that      *)
(* every halving is exact, and the jitter smoothing (weights 0.6 / 0.08 /  *)
(* 0.12 / 0.2, i.e. 15/25, 2/25, 3/25, 5/25) is computed in 25ths and      *)
(* floored.                                                                *)
(***************************************************************************)
EXTENDS Integers, Sequences, FiniteSets, TLC

\* ------------------------------------------------------------------------
\* Bounds of the model
\* ------------------------------------------------------------------------
MaxSamples == 4
\* clock steps taken in one behaviour of the room model
MaxClockSteps == 1
\* member ticks started in one behaviour of the room model
MaxTicks == 2
\* owner ticks and direct store calls started in one behaviour of the room model
MaxPublishes == 1

\* ------------------------------------------------------------------------
\* Program constants
\* ------------------------------------------------------------------------
POSITION_TOLERANCE == 2000
SYNC_TOLERANCE == 1000
ROOM_TTL == 86400

\* ------------------------------------------------------------------------
\* Values
\* ------------------------------------------------------------------------
\* A nullable number (RH: number | null) is <<>> for null and <<n>> for n.
Null == <<>>
Num(n) == <<n>>

\* `x || 0` on a nullable number
OrZero(x) == IF x = Null THEN 0 ELSE x[1]

Max(a, b) == IF a >= b THEN a ELSE b
Min(a, b) == IF a <= b THEN a ELSE b
Abs(a) == IF a >= 0 THEN a ELSE 0 - a

\* Array.prototype.slice(-n)
SliceLast(s, n) == IF Len(s) <= n THEN s ELSE SubSeq(s, Len(s) - n + 1, Len(s))

\* ------------------------------------------------------------------------
\* lib/redis-client.ts
\* ------------------------------------------------------------------------
\* weights = [0.2, 0.3, 0.5], each applied with the 0.4 historical share,
\* in 25ths: 0.08, 0.12, 0.2
weights == <<2, 3, 5>>

\* rawSeek of calculateMemberSeekClient (playing branch, before smoothing)
rawSeekClient(hostData, TM, RM) ==
  LET timeSinceHostUpdate == TM - hostData.TH
      hostWriteDelay == OrZero(hostData.RH) \div 2
      memberReadDelay == RM
      totalDelay == timeSinceHostUpdate - (hostWriteDelay + memberReadDelay)
  IN  hostData.SH + totalDelay

RECURSIVE HistorySum(_, _)
HistorySum(recentSeeks, i) ==
  IF i > Len(recentSeeks) THEN 0
  ELSE recentSeeks[i] * weights[i] + HistorySum(recentSeeks, i + 1)

\* smoothedSeek: 60% current calculation, 40% historical
smoothedSeekClient(rawSeek, previousSeeks) ==
  LET recentSeeks == SliceLast(previousSeeks, 3)
  IN  (15 * rawSeek + HistorySum(recentSeeks, 1)) \div 25

calculateMemberSeekClient(hostData, TM, RM, previousSeeks) ==
  IF ~hostData.isPlaying THEN hostData.SH
  ELSE LET rawSeek == rawSeekClient(hostData, TM, RM)
       IN  IF Len(previousSeeks) > 0
           THEN Max(0, smoothedSeekClient(rawSeek, previousSeeks))
           ELSE Max(0, rawSeek)

\* Mutant: the 1x and 2x latency buffers exchanged.
getAdaptiveSyncToleranceSwapped(RM, RH) ==
  LET avgLatency == (RM + OrZero(RH)) \div 2
      tolerance == IF avgLatency > 200 THEN 1000 + avgLatency
                   ELSE IF avgLatency > 100 THEN 1000 + avgLatency * 2
                   ELSE 1000
  IN  Min(Max(tolerance, 500), 5000)

getAdaptiveSyncTolerance(RM, RH) ==
  LET avgLatency == (RM + OrZero(RH)) \div 2
      tolerance == IF avgLatency > 200 THEN 1000 + avgLatency * 2
                   ELSE IF avgLatency > 100 THEN 1000 + avgLatency
                   ELSE 1000
  IN  Min(Max(tolerance, 500), 5000)

\* ------------------------------------------------------------------------
\* lib/redis-room-sync.ts (SH/TH/RH variant)
\* ------------------------------------------------------------------------
\* Mutant: the elapsed time floored at zero, as calculateSyncedPosition does.
rawSeekMemberFloored(hostData, TM, RM) ==
  LET hostLatency == OrZero(hostData.RH)
      timeDiff == Max(0, TM - hostData.TH)
      latencyAdjustment == (RM - hostLatency) \div 2
  IN  hostData.SH + timeDiff - latencyAdjustment

\* adjustedSeek of calculateMemberSeek (playing branch, before the clamp)
rawSeekMember(hostData, TM, RM) ==
  LET hostLatency == OrZero(hostData.RH)
      timeDiff == TM - hostData.TH
      latencyAdjustment == (RM - hostLatency) \div 2
  IN  hostData.SH + timeDiff - latencyAdjustment

\* Mutant: the clamp applied to the paused position as well.
calculateMemberSeekClampPaused(hostData, TM, RM) ==
  IF ~hostData.isPlaying THEN Max(0, hostData.SH)
  ELSE Max(0, rawSeekMember(hostData, TM, RM))

calculateMemberSeek(hostData, TM, RM) ==
  IF ~hostData.isPlaying THEN hostData.SH
  ELSE Max(0, rawSeekMember(hostData, TM, RM))

\* ------------------------------------------------------------------------
\* lib/redis-room-sync.ts (playbackState variant)
\* ------------------------------------------------------------------------
\* `now` is the Date.now() read inside the function
calculateSyncedPosition(recordedPosition, recordedTimestamp, isPlaying, userLatency, now) ==
  IF ~isPlaying THEN recordedPosition
  ELSE LET timeDiff == now - recordedTimestamp
           adjustedTimeDiff == Max(0, timeDiff - userLatency)
       IN  recordedPosition + adjustedTimeDiff

\* ========================================================================
\* State
\* ========================================================================
VARIABLES
  calcHostData,      \* the HostSyncData handed to the calculators
  calcTM,            \* member time TM (Date.now() of the member)
  calcRM,            \* member round trip time RM
  calcPreviousSeeks, \* previousSeeks: the jitter history
  calcRawSeeks,      \* raw targets of the evaluations made so far
  calcOut,           \* the last evaluation: its inputs and the three targets
  calcShift,         \* the last shift of TM: raw targets before and after
  calcTol,           \* the last two tolerance evaluations
  calcLat            \* the targets under the current and another pair of latencies

calcVars == <<calcHostData, calcTM, calcRM, calcPreviousSeeks, calcRawSeeks,
              calcOut, calcShift, calcTol, calcLat>>

VARIABLES
  budget,      \* how many member ticks, owner publications and clock steps
               \* one behaviour may take
  hookDef,     \* which definition of useRoomSync runs: 1 (playbackState
               \* variant, syncToOwner) or 2 (SH/TH/RH variant, syncToHost)
  now,         \* Date.now()
  clockSteps,  \* number of clock steps taken
  room,        \* the room record of the database: its owner
  redis,       \* the room:sync:<code> key: value (a set of at most one
               \* record) and the time it expires at
  hook,        \* per participant: the state and refs of its useRoomSync
  player,      \* per participant: what its playback driver holds
  tick,        \* per participant: the sync tick in flight or last ended
  request,     \* the owner's POST /api/rooms/sync in flight on the server
  lastStore,   \* the store call whose redis.set landed last
  lastGet      \* the last getHostSyncData and the store call it followed

roomVars == <<budget, hookDef, now, clockSteps, room, redis, hook, player, tick, request,
              lastStore, lastGet>>

VARIABLES
  ring,        \* syncErrors under a stream of errors, with the stream itself
  session,     \* one mounted useRoomSync: its props, timers, flags and the
               \* performSync calls made so far
  roster,      \* the room row and its memberships in the database
  monitor,     \* one useLatencySync: its measurement list and statistics
  probe,       \* the last round trip measurement of the library functions
  mount,       \* one hook instance under changes of its props: data, timers
  writers      \* concurrent write requests on one room's sync record

extraVars == <<ring, session, roster, monitor, probe, mount, writers>>

vars == <<calcVars, roomVars, extraVars>>

\* ========================================================================
\* The room: snapshot store, sync endpoints, hooks and playback drivers
\* ========================================================================
Participants == {"owner", "member"}
\* measureRoundTripTime results the model uses
MeasuredRoundTrips == {0, 600}

\* Mutant: the five last entries kept before the new one is added.
pushErrorKeepFive(errors, e) == Append(SliceLast(errors, 5), e)

\* `[...prev.slice(-4), e]`
pushError(errors, e) == Append(SliceLast(errors, 4), e)

\* useState / useRef initial values of useRoomSync (both definitions)
HookInit ==
  [isConnected |-> FALSE, lastSyncTime |-> 0, syncErrors |-> <<>>,
   RH |-> 0, RM |-> 0, isSyncingRef |-> FALSE,
   syncData |-> {}, lastKnownPositionRef |-> 0]

\* No tick started yet.
TickInit ==
  [pc |-> "idle", outcome |-> "none", n |-> 0, snapshot |-> {}, state |-> {},
   calls |-> <<>>, target |-> 0, TM |-> 0, RM |-> 0, RH |-> 0,
   syncData0 |-> {}, lastSyncTime0 |-> 0, syncErrors0 |-> <<>>,
   posts |-> 0, status |-> 0]

NoRequest == [stage |-> "none"]
NoStore == [done |-> FALSE]
NoGet == [done |-> FALSE]

\* The key holds a value until its TTL runs out.
redisGet(r, time) == IF time < r.expiresAt THEN r.value ELSE {}

\* redis.set(key, value, { ex: ROOM_TTL })
redisSet(r, value, time) ==
  [r EXCEPT !.value = {value}, !.expiresAt = time + ROOM_TTL * 1000]

\* Mutant: TH taken one millisecond before the call.
hostSyncDataBackdated(SH, isPlaying, RH, time) ==
  [SH |-> SH, TH |-> time - 1, RH |-> RH, isPlaying |-> isPlaying]

\* syncData of storeHostSyncData / storeHostSyncDataClient: TH is the
\* Date.now() of the call
hostSyncData(SH, isPlaying, RH, time) ==
  [SH |-> SH, TH |-> time, RH |-> RH, isPlaying |-> isPlaying]

\* updatedData of updateRoomPlayback: `timestamp || Date.now()`
updatedPlayback(currentData, position, isPlaying, timestamp, time) ==
  [currentData EXCEPT
     !.playbackState = [isPlaying |-> isPlaying, position |-> position,
                        timestamp |-> IF timestamp # 0 THEN timestamp ELSE time],
     !.lastUpdated = time]

\* getMemberLatency: 0 without data of this user or with data older than
\* 30 seconds
getMemberLatency(r, userId, time) ==
  LET found == {l \in r.latency : l.userId = userId}
  IN  IF found = {} THEN 0
      ELSE LET latencyData == CHOOSE l \in found : TRUE
           IN  IF time - latencyData.lastPing > 30000 THEN 0
               ELSE latencyData.latency

\* Body of a successful GET /api/rooms/sync?code=..., as a set: empty when
\* the endpoint answers 404.
syncResponse(def, r, userId, time) ==
  IF def = 2 THEN redisGet(r, time)
  ELSE { [playbackState |-> d.playbackState,
          ownerId |-> d.ownerId,
          userLatency |-> getMemberLatency(r, userId, time),
          syncedPosition |->
             calculateSyncedPosition(d.playbackState.position,
                                     d.playbackState.timestamp,
                                     d.playbackState.isPlaying,
                                     getMemberLatency(r, userId, time), time)]
         : d \in redisGet(r, time) }

\* What the member steers to, from the response and its own clock and RM.
\* First definition: `const { syncedPosition = 0 } = targetData`.
targetSeek(def, data, TM, RM) ==
  IF def = 2 THEN calculateMemberSeek(data, TM, RM) ELSE data.syncedPosition

snapshotIsPlaying(def, data) ==
  IF def = 2 THEN data.isPlaying ELSE data.playbackState.isPlaying

\* Mutant: a difference equal to the tolerance seeks as well.
seekNeededInclusive(def, SM, target) ==
  Abs(SM - target) >= (IF def = 2 THEN SYNC_TOLERANCE ELSE POSITION_TOLERANCE)

\* `seekDiff > SYNC_TOLERANCE` / `positionDiff > POSITION_TOLERANCE`
seekNeeded(def, SM, target) ==
  Abs(SM - target) > (IF def = 2 THEN SYNC_TOLERANCE ELSE POSITION_TOLERANCE)

\* Mutant: resume whenever the snapshot is playing.
playPauseCommandEager(paused, isPlaying) ==
  IF isPlaying THEN "resume"
  ELSE IF ~paused THEN "pause"
  ELSE "none"

\* The play/pause command of a tick: "resume", "pause" or "none".
playPauseCommand(paused, isPlaying) ==
  IF paused # ~isPlaying
  THEN IF isPlaying /\ paused THEN "resume"
       ELSE IF ~isPlaying /\ ~paused THEN "pause"
       ELSE "none"
  ELSE "none"

Call(op, arg) == [op |-> op, arg |-> arg]

\* ------------------------------------------------------------------------
\* Exits of a tick body
\* ------------------------------------------------------------------------
\* Mutant: the early return stamps lastSyncTime.
releaseEarlyStamped(h) ==
  [h EXCEPT !.isSyncingRef = FALSE, !.lastSyncTime = @ + 1]

\* early `return` of the member tick: the guard is released, nothing else
releaseEarly(h) == [h EXCEPT !.isSyncingRef = FALSE]

\* end of the try block: setLastSyncTime(Date.now()), then finally
completeSync(h, time) ==
  [h EXCEPT !.lastSyncTime = time, !.isSyncingRef = FALSE]

\* Mutant: the catch block stamps lastSyncTime as well.
catchSyncErrorStamped(h, msg) ==
  [h EXCEPT !.syncErrors = pushError(@, msg), !.isSyncingRef = FALSE,
            !.lastSyncTime = @ + 1]

\* Mutant: the catch block leaves without the finally block.
catchSyncErrorHeld(h, msg) ==
  [h EXCEPT !.syncErrors = pushError(@, msg)]

\* catch block, then finally
catchSyncError(h, msg) ==
  [h EXCEPT !.syncErrors = pushError(@, msg), !.isSyncingRef = FALSE]

EndTick(t, outcome) == [t EXCEPT !.pc = "idle", !.outcome = outcome]

\* After the seek (or without one): the play/pause command, if any, is sent;
\* otherwise the tick completes.
PlayPauseOrComplete(p, t) ==
  LET data == CHOOSE d \in t.snapshot : TRUE
      state == CHOOSE s \in t.state : TRUE
      cmd == playPauseCommand(state.paused, snapshotIsPlaying(hookDef, data))
  IN  IF cmd # "none"
      THEN /\ tick' = [tick EXCEPT ![p] =
                         [t EXCEPT !.pc = cmd, !.calls = Append(@, Call(cmd, 0))]]
           /\ UNCHANGED hook
      ELSE /\ tick' = [tick EXCEPT ![p] = EndTick(t, "done")]
           /\ hook' = [hook EXCEPT ![p] = completeSync(@, now)]

\* ========================================================================
\* The calculators on bounded inputs
\* ========================================================================
SeekValues == {-1000, 0, 60000}
HostTimes == {0, 5000}
MemberTimes == {1000, 6000}
Deltas == {1000, 4000}
RoundTrips == {0, 200, 202, 400, 6000}
HostRoundTrips == {Null} \cup {Num(r) : r \in RoundTrips}
Histories == {<<>>, <<-500>>, <<0, 50000>>, <<70000, 1000, 2000, 61000>>}

\* The room while only the calculators are exercised: nobody has joined.
NoErrors == [errors |-> <<>>, stream |-> <<>>, clears |-> 0]

\* The error ring while it is not exercised on its own.
RingIdle == ring = NoErrors

\* The hook before it is mounted in a room.
NoSession ==
  [def |-> 2, isOwner |-> FALSE, mounted |-> FALSE, roomCode |-> FALSE,
   syncInterval |-> FALSE, latencyInterval |-> FALSE,
   isConnected |-> FALSE, isSyncingRef |-> FALSE,
   pendingEffect |-> "none", calls |-> <<>>, measuring |-> 0,
   starts |-> 0, stops |-> 0, manualSyncs |-> 0, measurements |-> 0]

SessionIdle == session = NoSession

\* The room as POST /api/rooms/create leaves it: its creator is the only
\* member.
CreatedRoster ==
  [isActive |-> TRUE, active |-> {"owner"}, left |-> {}, writes |-> 0,
   before |-> {}]

RosterIdle == roster = CreatedRoster

\* useLatencySync as constructed: useState / useRef initial values.
NoMonitor ==
  [measurements |-> <<>>, averageLatency |-> 0, currentLatency |-> 0,
   stream |-> <<>>, checks |-> 0, last |-> [done |-> FALSE]]

NoProbe == [done |-> FALSE]

LatencyIdle == monitor = NoMonitor /\ probe = NoProbe

NoMount == [mounted |-> FALSE]

MountIdle == mount = NoMount

NoWriters == [started |-> FALSE]

WritersIdle == writers = NoWriters

ExtraIdle ==
  RingIdle /\ SessionIdle /\ RosterIdle /\ LatencyIdle /\ MountIdle /\ WritersIdle

RoomIdle ==
  /\ budget = [ticks |-> 0, publishes |-> 0, clockSteps |-> 0]
  /\ hookDef = 2
  /\ now = 0
  /\ clockSteps = 0
  /\ room = [ownerId |-> "owner"]
  /\ redis = [value |-> {}, expiresAt |-> 0, latency |-> {}]
  /\ hook = [p \in Participants |-> HookInit]
  /\ player = [p \in Participants |-> [position |-> 0, paused |-> TRUE]]
  /\ tick = [p \in Participants |-> TickInit]
  /\ request = NoRequest
  /\ lastStore = NoStore
  /\ lastGet = NoGet

NoOut == [done |-> FALSE]
NoShift == [done |-> FALSE]
NoTol == [done |-> FALSE]
NoLat == [done |-> FALSE]

CalcInit ==
  /\ calcHostData \in [SH : SeekValues, TH : HostTimes, RH : HostRoundTrips,
                       isPlaying : BOOLEAN]
  /\ calcTM \in MemberTimes
  /\ calcRM \in RoundTrips
  /\ calcPreviousSeeks \in Histories
  /\ calcRawSeeks = <<>>
  /\ calcOut = NoOut
  /\ calcShift = NoShift
  /\ calcTol = NoTol
  /\ calcLat = NoLat
  /\ RoomIdle
  /\ ExtraIdle

\* One member evaluation: the three calculators on the current inputs; the
\* client target joins the jitter history.
CalcTarget ==
  /\ calcTol = NoTol /\ calcLat = NoLat
  /\ Len(calcRawSeeks) < MaxSamples
  /\ LET target == calculateMemberSeekClient(calcHostData, calcTM, calcRM,
                                             calcPreviousSeeks)
     IN  /\ calcOut' = [done |-> TRUE,
                        hostData |-> calcHostData,
                        TM |-> calcTM, RM |-> calcRM,
                        previousSeeks |-> calcPreviousSeeks,
                        client |-> target,
                        member |-> calculateMemberSeek(calcHostData, calcTM, calcRM),
                        synced |-> calculateSyncedPosition(calcHostData.SH,
                                     calcHostData.TH, calcHostData.isPlaying,
                                     calcRM, calcTM)]
         /\ calcPreviousSeeks' = Append(calcPreviousSeeks, target)
         /\ calcRawSeeks' = Append(calcRawSeeks,
                                   rawSeekClient(calcHostData, calcTM, calcRM))
  /\ UNCHANGED <<calcHostData, calcTM, calcRM, calcShift, calcTol, calcLat>>
  /\ UNCHANGED <<roomVars, extraVars>>

\* The member evaluates later: TM grows by D, everything else is kept.
CalcShift ==
  /\ calcTol = NoTol /\ calcLat = NoLat
  /\ calcShift = NoShift
  /\ \E D \in Deltas :
       /\ calcTM' = calcTM + D
       /\ calcShift' = [done |-> TRUE, D |-> D,
                        clientBefore |-> rawSeekClient(calcHostData, calcTM, calcRM),
                        clientAfter |-> rawSeekClient(calcHostData, calcTM + D, calcRM),
                        memberBefore |-> rawSeekMember(calcHostData, calcTM, calcRM),
                        memberAfter |-> rawSeekMember(calcHostData, calcTM + D, calcRM)]
  /\ UNCHANGED <<calcHostData, calcRM, calcPreviousSeeks, calcRawSeeks, calcOut,
                 calcTol, calcLat>>
  /\ UNCHANGED <<roomVars, extraVars>>

\* The tolerance of the current latencies and of another pair of latencies.
CalcTolerance ==
  /\ calcOut = NoOut /\ calcShift = NoShift /\ calcTol = NoTol /\ calcLat = NoLat
  /\ \E rm \in RoundTrips, rh \in HostRoundTrips :
       calcTol' = [done |-> TRUE,
                   RM1 |-> calcRM, RH1 |-> calcHostData.RH,
                   tol1 |-> getAdaptiveSyncTolerance(calcRM, calcHostData.RH),
                   RM2 |-> rm, RH2 |-> rh,
                   tol2 |-> getAdaptiveSyncTolerance(rm, rh)]
  /\ UNCHANGED <<calcHostData, calcTM, calcRM, calcPreviousSeeks, calcRawSeeks,
                 calcOut, calcShift, calcLat>>
  /\ UNCHANGED <<roomVars, extraVars>>

\* The targets of both calculators under the current latencies and under
\* another pair of latencies, everything else being equal.
CalcLatency ==
  /\ calcOut = NoOut /\ calcShift = NoShift /\ calcTol = NoTol /\ calcLat = NoLat
  /\ \E rm \in RoundTrips, rh \in HostRoundTrips :
       LET other == [calcHostData EXCEPT !.RH = rh]
       IN  calcLat' =
             [done |-> TRUE,
              RM1 |-> calcRM, RH1 |-> calcHostData.RH,
              client1 |-> calculateMemberSeekClient(calcHostData, calcTM, calcRM,
                                                    calcPreviousSeeks),
              member1 |-> calculateMemberSeek(calcHostData, calcTM, calcRM),
              RM2 |-> rm, RH2 |-> rh,
              client2 |-> calculateMemberSeekClient(other, calcTM, rm,
                                                    calcPreviousSeeks),
              member2 |-> calculateMemberSeek(other, calcTM, rm)]
  /\ UNCHANGED <<calcHostData, calcTM, calcRM, calcPreviousSeeks, calcRawSeeks,
                 calcOut, calcShift, calcTol>>
  /\ UNCHANGED <<roomVars, extraVars>>

CalcNext == CalcTarget \/ CalcShift \/ CalcTolerance \/ CalcLatency

CalcSpec == CalcInit /\ [][CalcNext]_vars

\* ------------------------------------------------------------------------
\* Initial state: the room exists with an owner and one member, both hooks
\* just constructed, both drivers holding a track.
\* ------------------------------------------------------------------------
isOwner(p) == room.ownerId = p

CreatedRoomSyncData(time) ==
  [ownerId |-> "owner",
   playbackState |-> [isPlaying |-> FALSE, position |-> 0, timestamp |-> time],
   lastUpdated |-> time]

CalcIdle ==
  /\ calcHostData = hostSyncData(0, FALSE, Null, 0)
  /\ calcTM = 0
  /\ calcRM = 0
  /\ calcPreviousSeeks = <<>>
  /\ calcRawSeeks = <<>>
  /\ calcOut = NoOut
  /\ calcShift = NoShift
  /\ calcTol = NoTol
  /\ calcLat = NoLat

\* The room the hooks are constructed in, whatever the budget is.
RoomCreated ==
  /\ hookDef \in {1, 2}
  /\ now = 1000
  /\ clockSteps = 0
  /\ room = [ownerId |-> "owner"]
  /\ redis = IF hookDef = 2
             THEN [value |-> {}, expiresAt |-> 0, latency |-> {}]
             ELSE [value |-> {CreatedRoomSyncData(now)},
                   expiresAt |-> now + ROOM_TTL * 1000, latency |-> {}]
  /\ hook = [p \in Participants |-> HookInit]
  /\ player \in [Participants -> [position : {55000, 60000}, paused : BOOLEAN]]
  /\ player["owner"].position = 60000
  /\ tick = [p \in Participants |-> TickInit]
  /\ request = NoRequest
  /\ lastStore = NoStore
  /\ lastGet = NoGet

RoomInit ==
  /\ budget = [ticks |-> MaxTicks, publishes |-> MaxPublishes,
               clockSteps |-> MaxClockSteps]
  /\ RoomCreated

Init == RoomInit /\ CalcIdle /\ ExtraIdle

\* ------------------------------------------------------------------------
\* Environment
\* ------------------------------------------------------------------------
\* Time passes (one second, or the lifetime of the key); playing drivers move on.
AdvanceTime ==
  /\ clockSteps < budget.clockSteps
  /\ \E d \in {1000, ROOM_TTL * 1000} :
       /\ now' = now + d
       /\ player' = [p \in Participants |->
                       IF player[p].paused THEN player[p]
                       ELSE [player[p] EXCEPT !.position = @ + d]]
  /\ clockSteps' = clockSteps + 1
  /\ UNCHANGED <<budget, hookDef, room, redis, hook, tick, request, lastStore, lastGet>>
  /\ UNCHANGED <<calcVars, extraVars>>

\* updateRoundTripTime (second definition): setRH for the owner, setRM for a
\* member.  A tick reads RH / RM when it starts (the value its callback closed
\* over), so a measurement that lands during a tick is one that lands after it.
\* One measurement per participant replaces the initial 0.
UpdateRoundTripTime(p) ==
  /\ hookDef = 2
  /\ tick[p].pc = "idle"
  /\ \E roundTripTime \in MeasuredRoundTrips :
       /\ roundTripTime # 0
       /\ (IF isOwner(p) THEN hook[p].RH ELSE hook[p].RM) = 0
       /\ hook' = [hook EXCEPT ![p] =
                     IF isOwner(p) THEN [@ EXCEPT !.RH = roundTripTime]
                     ELSE [@ EXCEPT !.RM = roundTripTime]]
  /\ UNCHANGED <<budget, hookDef, now, clockSteps, room, redis, player, tick, request,
                 lastStore, lastGet>>
  /\ UNCHANGED <<calcVars, extraVars>>

\* POST action reportLatency of the member (first definition):
\* storeMemberLatency
ReportLatency ==
  /\ hookDef = 1
  /\ redis.latency = {}
  /\ \E latency \in MeasuredRoundTrips \ {0} :
       redis' = [redis EXCEPT !.latency =
                   {[userId |-> "member", latency |-> latency, lastPing |-> now]}]
  /\ UNCHANGED <<budget, hookDef, now, clockSteps, room, hook, player, tick, request,
                 lastStore, lastGet>>
  /\ UNCHANGED <<calcVars, extraVars>>

\* ------------------------------------------------------------------------
\* Member tick: performSync -> syncToHost (2) / fetchSyncData, syncToOwner (1)
\* ------------------------------------------------------------------------
MemberTickStart(p) ==
  /\ ~isOwner(p)
  /\ tick[p].pc = "idle"
  /\ tick[p].n < budget.ticks
  /\ LET t == [TickInit EXCEPT !.n = tick[p].n + 1, !.RM = hook[p].RM,
                               !.lastSyncTime0 = hook[p].lastSyncTime,
                               !.syncErrors0 = hook[p].syncErrors]
     IN  IF hookDef = 2
         THEN IF hook[p].isSyncingRef
              THEN /\ tick' = [tick EXCEPT ![p] = EndTick(t, "skipped")]
                   /\ hook' = [hook EXCEPT ![p].isConnected = TRUE]
              ELSE /\ tick' = [tick EXCEPT ![p] = [t EXCEPT !.pc = "fetch"]]
                   /\ hook' = [hook EXCEPT ![p].isConnected = TRUE,
                                           ![p].isSyncingRef = TRUE]
         ELSE /\ tick' = [tick EXCEPT ![p] = [t EXCEPT !.pc = "fetch"]]
              /\ UNCHANGED hook
  /\ UNCHANGED <<budget, hookDef, now, clockSteps, room, redis, player, request,
                 lastStore, lastGet>>
  /\ UNCHANGED <<calcVars, extraVars>>

\* The GET /api/rooms/sync answer arrives.
MemberFetchDone(p) ==
  /\ ~isOwner(p)
  /\ tick[p].pc = "fetch"
  /\ LET t == tick[p]
         response == syncResponse(hookDef, redis, p, now)
         asked == [t EXCEPT !.pc = "getState", !.snapshot = response,
                            !.calls = Append(@, Call("getCurrentState", 0))]
     IN  /\ lastGet' = [done |-> TRUE, value |-> response, time |-> now,
                        store |-> lastStore]
         /\ IF hookDef = 2
            THEN IF response = {}
                 THEN /\ tick' = [tick EXCEPT ![p] = EndTick(t, "noSnapshot")]
                      /\ hook' = [hook EXCEPT ![p] = releaseEarly(@)]
                 ELSE /\ tick' = [tick EXCEPT ![p] = asked]
                      /\ UNCHANGED hook
            ELSE IF response = {}
                 THEN /\ tick' = [tick EXCEPT ![p] = EndTick(t, "noSnapshot")]
                      /\ hook' = [hook EXCEPT ![p].syncErrors =
                                                pushError(@, "Fetch error")]
                 ELSE IF hook[p].isSyncingRef
                 THEN /\ tick' = [tick EXCEPT ![p] = EndTick(t, "skipped")]
                      /\ hook' = [hook EXCEPT ![p].syncData = response,
                                              ![p].isConnected = TRUE]
                 ELSE /\ tick' = [tick EXCEPT ![p] = asked]
                      /\ hook' = [hook EXCEPT ![p].syncData = response,
                                              ![p].isConnected = TRUE,
                                              ![p].isSyncingRef = TRUE]
  /\ UNCHANGED <<budget, hookDef, now, clockSteps, room, redis, player, request, lastStore>>
  /\ UNCHANGED <<calcVars, extraVars>>

\* The GET fails: the request throws, or the answer is an error status that
\* is not about missing data.
MemberFetchFails(p) ==
  /\ ~isOwner(p)
  /\ tick[p].pc = "fetch"
  /\ \E failure \in {"throws", "status"} :
       /\ tick' = [tick EXCEPT ![p] = EndTick(@, "fetchFailed")]
       /\ hook' = [hook EXCEPT ![p] =
                     IF hookDef = 1
                     THEN [@ EXCEPT !.syncErrors = pushError(@, "Fetch error")]
                     ELSE IF failure = "throws"
                     THEN catchSyncError(@, "Sync error")
                     ELSE releaseEarly(@)]
  /\ UNCHANGED <<budget, hookDef, now, clockSteps, room, redis, player, request,
                 lastStore, lastGet>>
  /\ UNCHANGED <<calcVars, extraVars>>

\* player.getCurrentState() settles; up to the next await.
MemberGotState(p) ==
  /\ ~isOwner(p)
  /\ tick[p].pc = "getState"
  /\ \E result \in {"state", "null", "throws"} :
       LET t == tick[p]
           data == CHOOSE d \in t.snapshot : TRUE
           SM == player[p].position
           target == targetSeek(hookDef, data, now, t.RM)
           seen == [t EXCEPT !.state = {player[p]}, !.TM = now, !.target = target]
       IN  CASE result = "state" ->
                  IF seekNeeded(hookDef, SM, target)
                  THEN /\ tick' = [tick EXCEPT ![p] =
                                     [seen EXCEPT !.pc = "seek",
                                        !.calls = Append(@, Call("seek", target))]]
                       /\ UNCHANGED hook
                  ELSE PlayPauseOrComplete(p, seen)
             [] result = "null" ->
                  /\ tick' = [tick EXCEPT ![p] = EndTick(t, "noState")]
                  /\ hook' = [hook EXCEPT ![p] = releaseEarly(@)]
             [] result = "throws" ->
                  /\ tick' = [tick EXCEPT ![p] = EndTick(t, "error")]
                  /\ hook' = [hook EXCEPT ![p] = catchSyncError(@, "Sync error")]
  /\ UNCHANGED <<budget, hookDef, now, clockSteps, room, redis, player, request,
                 lastStore, lastGet>>
  /\ UNCHANGED <<calcVars, extraVars>>

\* player.seek(target) settles.
MemberSeekDone(p) ==
  /\ ~isOwner(p)
  /\ tick[p].pc = "seek"
  /\ \E ok \in BOOLEAN :
       IF ok
       THEN /\ player' = [player EXCEPT ![p].position = tick[p].target]
            /\ PlayPauseOrComplete(p, tick[p])
       ELSE /\ tick' = [tick EXCEPT ![p] = EndTick(@, "error")]
            /\ hook' = [hook EXCEPT ![p] = catchSyncError(@, "Sync error")]
            /\ UNCHANGED player
  /\ UNCHANGED <<budget, hookDef, now, clockSteps, room, redis, request, lastStore, lastGet>>
  /\ UNCHANGED <<calcVars, extraVars>>

\* player.resume() / player.pause() settles.
MemberCommandDone(p) ==
  /\ ~isOwner(p)
  /\ tick[p].pc \in {"resume", "pause"}
  /\ \E ok \in BOOLEAN :
       IF ok
       THEN /\ player' = [player EXCEPT ![p].paused = (tick[p].pc = "pause")]
            /\ tick' = [tick EXCEPT ![p] = EndTick(@, "done")]
            /\ hook' = [hook EXCEPT ![p] = completeSync(@, now)]
       ELSE /\ tick' = [tick EXCEPT ![p] = EndTick(@, "error")]
            /\ hook' = [hook EXCEPT ![p] = catchSyncError(@, "Sync error")]
            /\ UNCHANGED player
  /\ UNCHANGED <<budget, hookDef, now, clockSteps, room, redis, request, lastStore, lastGet>>
  /\ UNCHANGED <<calcVars, extraVars>>

\* ------------------------------------------------------------------------
\* Owner tick: performSync -> sendHostSyncData (2) / fetchSyncData,
\* broadcastOwnerState -> updateServerPlayback (1)
\* ------------------------------------------------------------------------
OwnerTickStart(p) ==
  /\ isOwner(p)
  /\ tick[p].pc = "idle"
  /\ tick[p].n < budget.publishes
  /\ LET t == [TickInit EXCEPT !.n = tick[p].n + 1, !.RH = hook[p].RH,
                               !.syncData0 = hook[p].syncData,
                               !.lastSyncTime0 = hook[p].lastSyncTime,
                               !.syncErrors0 = hook[p].syncErrors]
     IN  IF hookDef = 2
         THEN /\ tick' = [tick EXCEPT ![p] =
                            [t EXCEPT !.pc = "getState",
                                      !.calls = <<Call("getCurrentState", 0)>>]]
              /\ hook' = [hook EXCEPT ![p].isConnected = TRUE]
         ELSE /\ tick' = [tick EXCEPT ![p] = [t EXCEPT !.pc = "fetch"]]
              /\ UNCHANGED hook
  /\ UNCHANGED <<budget, hookDef, now, clockSteps, room, redis, player, request,
                 lastStore, lastGet>>
  /\ UNCHANGED <<calcVars, extraVars>>

\* First definition: the owner's performSync fetches before it broadcasts.
OwnerFetchDone(p) ==
  /\ hookDef = 1
  /\ isOwner(p)
  /\ tick[p].pc = "fetch"
  /\ \E failed \in BOOLEAN :
       LET t == tick[p]
           response == IF failed THEN {} ELSE syncResponse(hookDef, redis, p, now)
       IN  IF response = {}
           THEN /\ tick' = [tick EXCEPT ![p] =
                              EndTick(t, IF failed THEN "fetchFailed" ELSE "noSnapshot")]
                /\ hook' = [hook EXCEPT ![p].syncErrors = pushError(@, "Fetch error")]
           ELSE /\ tick' = [tick EXCEPT ![p] =
                              [t EXCEPT !.pc = "getState", !.snapshot = response,
                                        !.calls = <<Call("getCurrentState", 0)>>]]
                /\ hook' = [hook EXCEPT ![p].syncData = response,
                                        ![p].isConnected = TRUE]
  /\ UNCHANGED <<budget, hookDef, now, clockSteps, room, redis, player, request,
                 lastStore, lastGet>>
  /\ UNCHANGED <<calcVars, extraVars>>

\* `positionDiff > 1000 || isPlaying !== syncData?.playbackState.isPlaying`,
\* with the syncData of the render the callback was created in
broadcastNeeded(currentPosition, isPlaying, lastKnownPosition, syncData) ==
  \/ Abs(currentPosition - lastKnownPosition) > 1000
  \/ syncData = {}
  \/ \E d \in syncData : d.playbackState.isPlaying # isPlaying

\* The body of a POST /api/rooms/sync and what the server has done with it.
newRequest(user, action, SH, isPlaying, RH, timestamp) ==
  [stage |-> "sent", user |-> user, action |-> action, SH |-> SH,
   isPlaying |-> isPlaying, RH |-> RH, timestamp |-> timestamp,
   value |-> {}, start |-> 0, status |-> 0]

\* player.getCurrentState() settles; the POST /api/rooms/sync is sent.
OwnerGotState(p) ==
  /\ isOwner(p)
  /\ tick[p].pc = "getState"
  /\ request = NoRequest
  /\ \E result \in {"state", "null", "throws"} :
       LET t == tick[p]
           state == player[p]
           seen == [t EXCEPT !.state = {state}]
       IN  CASE result = "state" ->
                  IF hookDef = 2
                  THEN /\ request' = newRequest(p, "sync", state.position,
                                                ~state.paused, Num(t.RH), 0)
                       /\ tick' = [tick EXCEPT ![p] = [seen EXCEPT !.pc = "post",
                                                                !.posts = 1]]
                       /\ UNCHANGED hook
                  ELSE IF broadcastNeeded(state.position, ~state.paused,
                                          hook[p].lastKnownPositionRef, t.syncData0)
                  THEN /\ request' = newRequest(p, "updatePlayback", state.position,
                                                ~state.paused, Null, now)
                       /\ tick' = [tick EXCEPT ![p] = [seen EXCEPT !.pc = "post",
                                                                !.posts = 1]]
                       /\ UNCHANGED hook
                  ELSE /\ tick' = [tick EXCEPT ![p] = EndTick(seen, "done")]
                       /\ UNCHANGED <<hook, request>>
             [] result = "null" ->
                  /\ tick' = [tick EXCEPT ![p] = EndTick(t, "noState")]
                  /\ UNCHANGED <<hook, request>>
             [] result = "throws" ->
                  /\ tick' = [tick EXCEPT ![p] = EndTick(t, "error")]
                  /\ hook' = [hook EXCEPT ![p].syncErrors =
                                pushError(@, IF hookDef = 2 THEN "Send error"
                                             ELSE "Broadcast error")]
                  /\ UNCHANGED request
  /\ UNCHANGED <<budget, hookDef, now, clockSteps, room, redis, player, lastStore, lastGet>>
  /\ UNCHANGED <<calcVars, extraVars>>

\* POST /api/rooms/sync on the server, up to the redis.set it awaits.
\* Second definition: owner check against the room, then storeHostSyncData.
\* First definition: getRoomSyncData, owner check against the stored ownerId,
\* then updateRoomPlayback.
ServerPost ==
  /\ request.stage = "sent"
  /\ LET stored == redisGet(redis, now)
         answer(status) == [request EXCEPT !.stage = "respond", !.status = status]
         setting(value) == [request EXCEPT !.stage = "set", !.value = {value},
                                           !.start = now]
     IN  request' =
           IF hookDef = 2
           THEN IF room.ownerId # request.user THEN answer(403)
                ELSE setting(hostSyncData(request.SH, request.isPlaying,
                                          request.RH, now))
           ELSE IF stored = {} THEN answer(404)
                ELSE LET currentData == CHOOSE d \in stored : TRUE
                     IN  IF currentData.ownerId # request.user THEN answer(403)
                         ELSE setting(updatedPlayback(currentData, request.SH,
                                        request.isPlaying, request.timestamp, now))
  /\ UNCHANGED <<budget, hookDef, now, clockSteps, room, redis, hook, player, tick,
                 lastStore, lastGet>>
  /\ UNCHANGED <<calcVars, extraVars>>

\* storeHostSyncDataClient called from the owner's browser, without the
\* endpoint; it counts as one of the owner's MaxPublishes publications.
StoreHostSyncDataClient(p) ==
  /\ hookDef = 2
  /\ isOwner(p)
  /\ tick[p].pc = "idle"
  /\ tick[p].n < budget.publishes
  /\ request = NoRequest
  /\ tick' = [tick EXCEPT ![p].n = @ + 1]
  /\ \E RH \in {Null, Num(hook[p].RH)} :
       request' = [newRequest(p, "client", player[p].position, ~player[p].paused,
                              RH, 0)
                   EXCEPT !.stage = "set", !.start = now,
                          !.value = {hostSyncData(player[p].position,
                                                  ~player[p].paused, RH, now)}]
  /\ UNCHANGED <<budget, hookDef, now, clockSteps, room, redis, hook, player,
                 lastStore, lastGet>>
  /\ UNCHANGED <<calcVars, extraVars>>

\* The redis.set of the store call lands, or fails.
RedisSetDone ==
  /\ request.stage = "set"
  /\ \E ok \in BOOLEAN :
       /\ IF ok
          THEN /\ redis' = redisSet(redis, CHOOSE v \in request.value : TRUE, now)
               /\ lastStore' = [done |-> TRUE, SH |-> request.SH,
                                isPlaying |-> request.isPlaying, RH |-> request.RH,
                                start |-> request.start, landed |-> now]
          ELSE UNCHANGED <<redis, lastStore>>
       /\ request' = IF request.action = "client" THEN NoRequest
                     ELSE [request EXCEPT !.stage = "respond",
                                          !.status = IF ok THEN 200 ELSE 500]
  /\ UNCHANGED <<budget, hookDef, now, clockSteps, room, hook, player, tick, lastGet>>
  /\ UNCHANGED <<calcVars, extraVars>>

\* The answer of the POST reaches the owner: fetch resolves whatever the status.
OwnerReceive(p) ==
  /\ isOwner(p)
  /\ tick[p].pc = "post"
  /\ request.stage = "respond"
  /\ request' = NoRequest
  /\ tick' = [tick EXCEPT ![p] = EndTick([@ EXCEPT !.status = request.status],
                                         "done")]
  /\ hook' = [hook EXCEPT ![p] =
                IF hookDef = 2 THEN [@ EXCEPT !.lastSyncTime = now]
                ELSE [@ EXCEPT !.lastKnownPositionRef =
                                 (CHOOSE s \in tick[p].state : TRUE).position]]
  /\ UNCHANGED <<budget, hookDef, now, clockSteps, room, redis, player, lastStore, lastGet>>
  /\ UNCHANGED <<calcVars, extraVars>>

\* The POST throws (network failure).  Second definition: the catch of
\* sendHostSyncData.  First definition: the catch of updateServerPlayback,
\* after which broadcastOwnerState goes on.
OwnerPostThrows(p) ==
  /\ isOwner(p)
  /\ tick[p].pc = "post"
  /\ request.stage \in {"sent", "respond"}
  /\ request' = NoRequest
  /\ tick' = [tick EXCEPT ![p] = EndTick(@, "error")]
  /\ hook' = [hook EXCEPT ![p] =
                IF hookDef = 2
                THEN [@ EXCEPT !.syncErrors = pushError(@, "Send error")]
                ELSE [@ EXCEPT !.syncErrors = pushError(@, "Update error"),
                               !.lastKnownPositionRef =
                                 (CHOOSE s \in tick[p].state : TRUE).position]]
  /\ UNCHANGED <<budget, hookDef, now, clockSteps, room, redis, player, lastStore, lastGet>>
  /\ UNCHANGED <<calcVars, extraVars>>

Next ==
  \/ AdvanceTime
  \/ \E p \in Participants : UpdateRoundTripTime(p)
  \/ ReportLatency
  \/ \E p \in Participants : MemberTickStart(p)
  \/ \E p \in Participants : MemberFetchDone(p)
  \/ \E p \in Participants : MemberFetchFails(p)
  \/ \E p \in Participants : MemberGotState(p)
  \/ \E p \in Participants : MemberSeekDone(p)
  \/ \E p \in Participants : MemberCommandDone(p)
  \/ \E p \in Participants : OwnerTickStart(p)
  \/ \E p \in Participants : OwnerFetchDone(p)
  \/ \E p \in Participants : OwnerGotState(p)
  \/ ServerPost
  \/ \E p \in Participants : StoreHostSyncDataClient(p)
  \/ RedisSetDone
  \/ \E p \in Participants : OwnerReceive(p)
  \/ \E p \in Participants : OwnerPostThrows(p)

Spec == Init /\ [][Next]_vars

\* ------------------------------------------------------------------------
\* The owner alone, over more ticks
\* ------------------------------------------------------------------------
MaxOwnerTicks == 2
MaxOwnerClockSteps == 1

OwnerInit ==
  /\ budget = [ticks |-> 0, publishes |-> MaxOwnerTicks,
               clockSteps |-> MaxOwnerClockSteps]
  /\ RoomCreated
  /\ player["member"] = [position |-> 60000, paused |-> TRUE]
  /\ CalcIdle
  /\ ExtraIdle

OwnerNext ==
  \/ AdvanceTime
  \/ UpdateRoundTripTime("owner")
  \/ OwnerTickStart("owner")
  \/ OwnerFetchDone("owner")
  \/ OwnerGotState("owner")
  \/ ServerPost
  \/ StoreHostSyncDataClient("owner")
  \/ RedisSetDone
  \/ OwnerReceive("owner")
  \/ OwnerPostThrows("owner")

OwnerSpec == OwnerInit /\ [][OwnerNext]_vars

\* ========================================================================
\* syncErrors under a stream of errors and clearErrors calls
\* ========================================================================
MaxErrors == 7
MaxClears == 1
ErrorKinds == {"Sync error", "Send error", "Fetch error"}

RingInit == ExtraIdle /\ RoomIdle /\ CalcIdle

\* a catch block runs: setSyncErrors(prev => [...prev.slice(-4), e])
RingPush ==
  /\ Len(ring.stream) < MaxErrors
  /\ \E e \in ErrorKinds :
       ring' = [ring EXCEPT !.errors = pushError(@, e),
                            !.stream = Append(@, e)]
  /\ UNCHANGED <<calcVars, roomVars, session, roster, monitor, probe, mount, writers>>

\* clearErrors: () => setSyncErrors([])
RingClear ==
  /\ ring.clears < MaxClears
  /\ ring' = [errors |-> <<>>, stream |-> <<>>, clears |-> ring.clears + 1]
  /\ UNCHANGED <<calcVars, roomVars, session, roster, monitor, probe, mount, writers>>

RingNext == RingPush \/ RingClear

RingSpec == RingInit /\ [][RingNext]_vars

\* C15: syncErrors never holds more than 5 entries, and it holds the most
\* recent errors since the last clearErrors in their order of occurrence,
\* the oldest dropped first; right after clearErrors it is empty.
ErrorRing ==
  /\ Len(ring.errors) <= 5
  /\ ring.errors = SliceLast(ring.stream, 5)

\* seven errors after a clearErrors: the two oldest are gone
ErrorRingWitness ==
  /\ ring.clears = 1
  /\ Len(ring.stream) = 7
  /\ ring.stream[1] = "Sync error"
  /\ ring.stream[2] = "Send error"
  /\ ring.stream[3] = "Fetch error"
  /\ Len(ring.errors) = 5
  /\ ring.errors[1] = "Fetch error"

\* ========================================================================
\* Lifecycle of one useRoomSync: effects, timers, performSync calls
\* ========================================================================
MaxCalls == 3
MaxStarts == 2
MaxStops == 2
MaxManualSyncs == 1
MaxMeasurements == 1

\* Mutant: the member tick body starts whatever isSyncingRef says.
syncGuardOpen(owner, syncing) == FALSE

\* `if (... || isOwner || isSyncingRef.current) return` of syncToHost /
\* syncToOwner; sendHostSyncData / broadcastOwnerState have no such guard
syncGuard(owner, syncing) == ~owner /\ syncing

\* A tick body is entered by the call under construction.
enterBody(s, call) ==
  IF syncGuard(s.isOwner, s.isSyncingRef)
  THEN [s EXCEPT !.calls = Append(@, [call EXCEPT !.pc = "skipped"])]
  ELSE [s EXCEPT !.calls = Append(@, [call EXCEPT !.pc = "body"]),
                 !.isSyncingRef = IF s.isOwner THEN @ ELSE TRUE]

\* performSync() up to its first await.  Second definition:
\* setIsConnected(true), then sendHostSyncData / syncToHost.  First
\* definition: fetchSyncData is awaited first.
startPerformSync(s, origin) ==
  LET call == [origin |-> origin, pc |-> "fetch",
               stopped |-> (~s.roomCode \/ ~s.mounted)]
  IN  IF ~s.roomCode THEN s
      ELSE IF s.def = 2
      THEN enterBody([s EXCEPT !.isConnected = TRUE], call)
      ELSE [s EXCEPT !.calls = Append(@, call)]

\* The effect on [roomCode, performSync] runs again: its cleanup clears the
\* interval; without a room code it sets isConnected false, with one it
\* calls performSync and sets the interval.
runSyncEffect(s, origin) ==
  IF ~s.roomCode
  THEN [s EXCEPT !.syncInterval = FALSE, !.isConnected = FALSE]
  ELSE [startPerformSync(s, origin) EXCEPT !.syncInterval = TRUE]

LifeInit ==
  /\ \E def \in {1, 2}, owner \in BOOLEAN :
       session = [NoSession EXCEPT !.def = def, !.isOwner = owner,
                                   !.mounted = TRUE]
  /\ RingIdle
  /\ RosterIdle
  /\ LatencyIdle
  /\ MountIdle
  /\ WritersIdle
  /\ RoomIdle
  /\ CalcIdle

\* The room code prop becomes non-null: both effects run.
LifeStart ==
  /\ session.mounted
  /\ ~session.roomCode
  /\ session.starts < MaxStarts
  /\ Len(session.calls) < MaxCalls
  /\ session' =
       [runSyncEffect([session EXCEPT !.roomCode = TRUE], "initial")
          EXCEPT !.latencyInterval = TRUE, !.measuring = @ + 1,
                 !.pendingEffect = "none", !.starts = @ + 1]
  /\ UNCHANGED <<calcVars, roomVars, ring, roster, monitor, probe, mount, writers>>

\* The room code prop becomes (or is again) null.
LifeStop ==
  /\ session.mounted
  /\ session.stops < MaxStops
  /\ session' =
       IF session.roomCode
       THEN [runSyncEffect([session EXCEPT !.roomCode = FALSE], "none")
               EXCEPT !.latencyInterval = FALSE, !.pendingEffect = "none",
                      !.stops = @ + 1]
       ELSE [session EXCEPT !.stops = @ + 1]
  /\ UNCHANGED <<calcVars, roomVars, ring, roster, monitor, probe, mount, writers>>

\* The component unmounts: the cleanups of all effects run.
LifeUnmount ==
  /\ session.mounted
  /\ session' = [session EXCEPT !.mounted = FALSE, !.syncInterval = FALSE,
                                !.latencyInterval = FALSE,
                                !.pendingEffect = "none"]
  /\ UNCHANGED <<calcVars, roomVars, ring, roster, monitor, probe, mount, writers>>

\* The 1000 ms interval calls performSync.
SyncIntervalFires ==
  /\ session.syncInterval
  /\ Len(session.calls) < MaxCalls
  /\ session' = startPerformSync(session, "interval")
  /\ UNCHANGED <<calcVars, roomVars, ring, roster, monitor, probe, mount, writers>>

\* The consumer calls manualSync, which is performSync of the last render.
ManualSync ==
  /\ session.mounted
  /\ session.manualSyncs < MaxManualSyncs
  /\ Len(session.calls) < MaxCalls
  /\ session' = [startPerformSync(session, "manual")
                   EXCEPT !.manualSyncs = @ + 1]
  /\ UNCHANGED <<calcVars, roomVars, ring, roster, monitor, probe, mount, writers>>

\* The 5000 ms interval starts a latency measurement.
LatencyIntervalFires ==
  /\ session.latencyInterval
  /\ session.measurements < MaxMeasurements
  /\ session' = [session EXCEPT !.measuring = @ + 1, !.measurements = @ + 1]
  /\ UNCHANGED <<calcVars, roomVars, ring, roster, monitor, probe, mount, writers>>

\* A measurement settles.  In the second definition a changed RH / RM is a
\* dependency of sendHostSyncData / syncToHost, hence of performSync.
MeasurementDone ==
  /\ session.measuring > 0
  /\ \E changed \in BOOLEAN :
       session' =
         [session EXCEPT !.measuring = @ - 1,
                         !.pendingEffect =
                            IF changed /\ session.def = 2 /\ session.mounted
                            THEN "measurement" ELSE @]
  /\ UNCHANGED <<calcVars, roomVars, ring, roster, monitor, probe, mount, writers>>

\* First definition: fetchSyncData settles; on success setSyncData(data) and
\* setIsConnected(true), then broadcastOwnerState / syncToOwner.  syncData is
\* a dependency of broadcastOwnerState, hence of performSync.
SyncFetchDone(i) ==
  /\ i \in 1..Len(session.calls)
  /\ session.calls[i].pc = "fetch"
  /\ \E ok \in BOOLEAN :
       LET call == session.calls[i]
           rest == [session EXCEPT !.calls =
                      [j \in 1..(Len(@) - 1) |->
                         IF j < i THEN @[j] ELSE @[j + 1]]]
           set  == IF session.mounted
                   THEN [rest EXCEPT !.isConnected = TRUE,
                                     !.pendingEffect = call.origin]
                   ELSE rest
           body == enterBody(set, call)
           \* the call keeps its place in the list of calls
           kept == [body EXCEPT !.calls =
                      [j \in 1..Len(session.calls) |->
                         IF j < i THEN session.calls[j]
                         ELSE IF j = i THEN body.calls[Len(body.calls)]
                         ELSE session.calls[j]]]
       IN  session' = IF ok THEN kept
                      ELSE [session EXCEPT !.calls[i].pc = "ended"]
  /\ UNCHANGED <<calcVars, roomVars, ring, roster, monitor, probe, mount, writers>>

\* A tick body settles, by any of its exits; the member's releases
\* isSyncingRef.
SyncBodyDone(i) ==
  /\ i \in 1..Len(session.calls)
  /\ session.calls[i].pc = "body"
  /\ session' = [session EXCEPT !.calls[i].pc = "ended",
                                !.isSyncingRef =
                                   IF session.isOwner THEN @ ELSE FALSE]
  /\ UNCHANGED <<calcVars, roomVars, ring, roster, monitor, probe, mount, writers>>

\* After the render that a state change caused, the effect on
\* [roomCode, performSync] runs again.
RunSyncEffect ==
  /\ session.mounted
  /\ session.pendingEffect # "none"
  /\ session.roomCode => Len(session.calls) < MaxCalls
  /\ session' = [runSyncEffect(session, "effect")
                   EXCEPT !.pendingEffect = "none"]
  /\ UNCHANGED <<calcVars, roomVars, ring, roster, monitor, probe, mount, writers>>

LifeNext ==
  \/ LifeStart
  \/ LifeStop
  \/ LifeUnmount
  \/ SyncIntervalFires
  \/ ManualSync
  \/ LatencyIntervalFires
  \/ MeasurementDone
  \/ \E i \in 1..MaxCalls : SyncFetchDone(i)
  \/ \E i \in 1..MaxCalls : SyncBodyDone(i)
  \/ RunSyncEffect

LifeSpec == LifeInit /\ [][LifeNext]_vars

BodiesInFlight == {i \in 1..Len(session.calls) : session.calls[i].pc = "body"}

SessionStopped == ~session.roomCode \/ ~session.mounted

\* C16: once the room code is null or the hook is unmounted, both intervals
\* are cancelled, isConnected is false and no performSync call has been
\* started since, whatever ticks are still in flight.
StopQuiesces ==
  SessionStopped =>
    /\ ~session.syncInterval
    /\ ~session.latencyInterval
    /\ session.mounted => ~session.isConnected
    /\ \A i \in 1..Len(session.calls) : ~session.calls[i].stopped

\* C18: a manualSync in an active room runs one tick body at once, also when
\* another tick is in flight, and its tick does not make the interval effect
\* run again.
ManualSyncRunsOneTick ==
  /\ \A i \in 1..Len(session.calls) :
       session.calls[i].origin = "manual" => session.calls[i].pc # "skipped"
  /\ session.pendingEffect # "manual"

\* C27: every performSync call was made by the start of the room, by the
\* sync interval or by manualSync; none was made by a re-run of the interval
\* effect that a completed tick or a completed measurement caused.
TicksOnlyFromSchedule ==
  \A i \in 1..Len(session.calls) :
    session.calls[i].origin \in {"initial", "interval", "manual"}

\* C28: while the hook is mounted without a room code isConnected is false,
\* also when a tick that was in flight at the stop completes afterwards.
StoppedStaysDisconnected ==
  (session.mounted /\ ~session.roomCode) => ~session.isConnected

\* C19 as stated: no two tick bodies of one hook are in flight together.
NoOverlap == Cardinality(BodiesInFlight) <= 1

\* C19: no two bodies of the member's tick (syncToHost / syncToOwner) are in
\* flight together; a call that finds one in flight is skipped.
NoMemberOverlap == ~session.isOwner => Cardinality(BodiesInFlight) <= 1

NoMemberOverlapWitness ==
  /\ ~session.isOwner
  /\ Cardinality(BodiesInFlight) = 1
  /\ \E i \in 1..Len(session.calls) : session.calls[i].pc = "skipped"


\* ========================================================================
\* Who may write the snapshot: create, join, leave, POST /api/rooms/sync
\* ========================================================================
MaxWrites == 2

Users == {"owner", "member", "guest"}

AccessInit ==
  /\ budget = [ticks |-> 0, publishes |-> 0, clockSteps |-> 0]
  /\ RoomCreated
  /\ \A p \in Participants : player[p] = [position |-> 60000, paused |-> TRUE]
  /\ RosterIdle
  /\ RingIdle
  /\ SessionIdle
  /\ LatencyIdle
  /\ MountIdle
  /\ WritersIdle
  /\ CalcIdle

\* POST /api/rooms/join of a user who has no membership of the room yet.
JoinRoom(u) ==
  /\ request = NoRequest
  /\ roster.isActive
  /\ u \notin roster.active
  /\ u \notin roster.left
  /\ roster' = [roster EXCEPT !.active = @ \cup {u}]
  /\ UNCHANGED <<calcVars, roomVars, ring, session, monitor, probe, mount, writers>>

\* cleanupRoomData: the sync, members and latency keys are deleted.
cleanupRoomData(r) == [r EXCEPT !.value = {}, !.expiresAt = 0, !.latency = {}]

\* removeRoomMember: the user's entry and latency data are deleted.
removeRoomMember(r, u) == [r EXCEPT !.latency = {l \in @ : l.userId # u}]

\* POST /api/rooms/leave of an active member.  An owner who leaves hands the
\* room row to one of the other active members (room.update of ownerId), or
\* closes the room when there is none.
LeaveRoom(u) ==
  /\ request = NoRequest
  /\ u \in roster.active
  /\ LET activeMembers == roster.active \ {u}
         gone == [roster EXCEPT !.active = activeMembers, !.left = @ \cup {u}]
     IN  IF room.ownerId # u
         THEN /\ roster' = gone
              /\ redis' = removeRoomMember(redis, u)
              /\ UNCHANGED room
         ELSE IF activeMembers # {}
         THEN /\ roster' = gone
              /\ redis' = removeRoomMember(redis, u)
              /\ \E newOwner \in activeMembers :
                   room' = [room EXCEPT !.ownerId = newOwner]
         ELSE /\ roster' = [gone EXCEPT !.isActive = FALSE]
              /\ redis' = cleanupRoomData(removeRoomMember(redis, u))
              /\ UNCHANGED room
  /\ UNCHANGED <<budget, hookDef, now, clockSteps, hook, player, tick, request,
                 lastStore, lastGet>>
  /\ UNCHANGED <<calcVars, ring, session, monitor, probe, mount, writers>>

\* Any user sends a playback write: POST /api/rooms/sync with SH, isPlaying
\* (second definition) or with action updatePlayback (first definition).
WriteRequest(u) ==
  /\ request = NoRequest
  /\ roster.writes < MaxWrites
  /\ \E SH \in {30000, 90000}, isPlaying \in BOOLEAN :
       request' = IF hookDef = 2
                  THEN newRequest(u, "sync", SH, isPlaying, Null, 0)
                  ELSE newRequest(u, "updatePlayback", SH, isPlaying, Null, now)
  /\ roster' = [roster EXCEPT !.writes = @ + 1, !.before = redis.value]
  /\ UNCHANGED <<budget, hookDef, now, clockSteps, room, redis, hook, player,
                 tick, lastStore, lastGet>>
  /\ UNCHANGED <<calcVars, ring, session, monitor, probe, mount, writers>>

\* The answer of the POST reaches the user who sent it.
WriteAnswered ==
  /\ request.stage = "respond"
  /\ request' = NoRequest
  /\ UNCHANGED <<budget, hookDef, now, clockSteps, room, redis, hook, player,
                 tick, lastStore, lastGet>>
  /\ UNCHANGED <<calcVars, extraVars>>

AccessNext ==
  \/ \E u \in Users : JoinRoom(u)
  \/ \E u \in Users : LeaveRoom(u)
  \/ \E u \in Users : WriteRequest(u)
  \/ ServerPost
  \/ RedisSetDone
  \/ WriteAnswered

AccessSpec == AccessInit /\ [][AccessNext]_vars

\* The user owns the room now: the room row names them, they are an active
\* member and the room is open.
CurrentOwner(u) ==
  /\ roster.isActive
  /\ u \in roster.active
  /\ room.ownerId = u

\* C20: in an open room, a playback write of a user who is not the current
\* owner is answered 403 and leaves the stored snapshot as it was, and a
\* write of the current owner is accepted.
OwnerOnlyWrites ==
  roster.isActive =>
    /\ request.stage = "set" => CurrentOwner(request.user)
    /\ request.stage = "respond" =>
         IF CurrentOwner(request.user)
         THEN request.status \in {200, 500}
         ELSE request.status = 403 /\ redis.value = roster.before

\* ========================================================================
\* Round trip measurement and the rolling window of useLatencySync
\* Durations are integer microseconds; the measured round trips are even, so
\* that halving is exact.  jitter and isStable are not modelled.
\* ========================================================================
MAX_MEASUREMENTS == 10
MaxChecks == 12

\* How a probe can go: the request is answered 2xx, answered otherwise, or
\* throws (network or store error), or its body is not JSON.
ProbeOutcomes == {"ok", "notOk", "throws", "badJson"}

\* endTime - startTime of performance.now(), in microseconds
Elapsed == {0, 20016, 40000}

Resolved(value) == [settled |-> "resolved", value |-> value]

\* measureRoundTripTimeClient: redis.set, redis.get, all inside try / catch
measureRoundTripTimeClient(setOk, getOk, elapsed) ==
  IF setOk /\ getOk THEN Resolved(Max(0, elapsed)) ELSE Resolved(0)

\* Mutant: the status of the response is not looked at.
measureRoundTripTimeUnchecked(outcome, elapsed) ==
  IF outcome = "throws" THEN Resolved(0) ELSE Resolved(Max(0, elapsed))

\* measureRoundTripTime: fetch of /api/rooms/ping; the body is not read
measureRoundTripTime(outcome, elapsed) ==
  IF outcome = "throws" THEN Resolved(0)
  ELSE IF outcome = "notOk" THEN Resolved(0)
  ELSE Resolved(Max(0, elapsed))

\* useLatencySync.measureLatency: the one-way latency, half the round trip
measureLatency(hasRoomCode, outcome, elapsed) ==
  IF ~hasRoomCode THEN Resolved(0)
  ELSE IF outcome = "ok" THEN Resolved(Max(0, elapsed \div 2))
  ELSE Resolved(0)

\* Math.round(x * 100) / 100 of a duration of t microseconds
RoundHundredths(t) == ((t + 5) \div 10) * 10

\* Math.round((total / n) * 100) / 100
RoundedMean(total, n) == ((2 * total + 10 * n) \div (20 * n)) * 10

RECURSIVE SumSeq(_)
SumSeq(q) == IF q = <<>> THEN 0 ELSE Head(q) + SumSeq(Tail(q))

\* calculateStats
calculateStats(measurements) ==
  IF Len(measurements) = 0
  THEN [averageLatency |-> 0, currentLatency |-> 0]
  ELSE [averageLatency |-> RoundedMean(SumSeq(measurements), Len(measurements)),
        currentLatency |-> RoundHundredths(measurements[Len(measurements)])]

\* Mutant: the window keeps MAX_MEASUREMENTS old entries.
addMeasurementKeepTen(m, latency) ==
  LET list == Append(SliceLast(m.measurements, MAX_MEASUREMENTS), latency)
      newStats == calculateStats(list)
  IN  [m EXCEPT !.measurements = list,
                !.averageLatency = newStats.averageLatency,
                !.currentLatency = newStats.currentLatency]

\* addMeasurement: measurementsRef and syncState
addMeasurement(m, latency) ==
  LET list == Append(SliceLast(m.measurements, MAX_MEASUREMENTS - 1), latency)
      newStats == calculateStats(list)
  IN  [m EXCEPT !.measurements = list,
                !.averageLatency = newStats.averageLatency,
                !.currentLatency = newStats.currentLatency]

LatencyInit ==
  /\ LatencyIdle
  /\ RingIdle /\ SessionIdle /\ RosterIdle /\ MountIdle /\ WritersIdle
  /\ RoomIdle
  /\ CalcIdle

\* performLatencyCheck in a room: measureLatency, then addMeasurement when
\* the latency is positive.  stream records the positive latencies measured.
PerformLatencyCheck ==
  /\ probe = NoProbe
  /\ monitor.checks < MaxChecks
  /\ \E outcome \in ProbeOutcomes, elapsed \in Elapsed :
       LET result == measureLatency(TRUE, outcome, elapsed)
           latency == result.value
           seen == [monitor EXCEPT
                      !.checks = @ + 1,
                      !.last = [done |-> TRUE, failed |-> outcome # "ok",
                                settled |-> result.settled,
                                value |-> result.value],
                      !.stream = IF outcome = "ok" /\ latency > 0
                                 THEN Append(@, latency) ELSE @]
       IN  monitor' = IF latency > 0 THEN addMeasurement(seen, latency) ELSE seen
  /\ UNCHANGED probe
  /\ UNCHANGED <<calcVars, roomVars, ring, session, roster, mount, writers>>

\* One call of measureRoundTripTimeClient.
MeasureRoundTripTimeClient ==
  /\ probe = NoProbe
  /\ monitor = NoMonitor
  /\ \E setOk \in BOOLEAN, getOk \in BOOLEAN, elapsed \in Elapsed :
       LET result == measureRoundTripTimeClient(setOk, getOk, elapsed)
       IN  probe' = [done |-> TRUE, fn |-> "measureRoundTripTimeClient",
                     failed |-> ~(setOk /\ getOk), elapsed |-> elapsed,
                     settled |-> result.settled, value |-> result.value]
  /\ UNCHANGED monitor
  /\ UNCHANGED <<calcVars, roomVars, ring, session, roster, mount, writers>>

\* One call of measureRoundTripTime.
MeasureRoundTripTime ==
  /\ probe = NoProbe
  /\ monitor = NoMonitor
  /\ \E outcome \in ProbeOutcomes \ {"badJson"}, elapsed \in Elapsed :
       LET result == measureRoundTripTime(outcome, elapsed)
       IN  probe' = [done |-> TRUE, fn |-> "measureRoundTripTime",
                     failed |-> outcome # "ok", elapsed |-> elapsed,
                     settled |-> result.settled, value |-> result.value]
  /\ UNCHANGED monitor
  /\ UNCHANGED <<calcVars, roomVars, ring, session, roster, mount, writers>>

LatencyNext ==
  \/ PerformLatencyCheck
  \/ MeasureRoundTripTimeClient
  \/ MeasureRoundTripTime

LatencySpec == LatencyInit /\ [][LatencyNext]_vars

\* The result of a measurement is a resolved value, not negative, and 0 when
\* the probe failed.
SafeResult(r) ==
  r.done => /\ r.settled = "resolved"
            /\ r.value >= 0
            /\ r.failed => r.value = 0

\* C21: measureRoundTripTimeClient, measureRoundTripTime and measureLatency
\* always resolve, with a value >= 0, and with 0 when the probe failed.
MeasurementNeverFails == SafeResult(probe) /\ SafeResult(monitor.last)

MeasurementNeverFailsWitness ==
  /\ probe.done
  /\ probe.fn = "measureRoundTripTime"
  /\ probe.failed
  /\ probe.elapsed > 0
  /\ probe.value = 0

SeqMin(q) == CHOOSE x \in {q[i] : i \in 1..Len(q)} : \A i \in 1..Len(q) : x <= q[i]
SeqMax(q) == CHOOSE x \in {q[i] : i \in 1..Len(q)} : \A i \in 1..Len(q) : x >= q[i]

\* The list is the last MAX_MEASUREMENTS positive latencies measured, in
\* order; failed checks added nothing.
WindowHoldsRecent ==
  /\ Len(monitor.measurements) <= MAX_MEASUREMENTS
  /\ monitor.measurements = SliceLast(monitor.stream, MAX_MEASUREMENTS)
  /\ \A i \in 1..Len(monitor.measurements) : monitor.measurements[i] > 0

\* C30 as stated: the window holds the recent measurements, currentLatency is
\* the latest entry and averageLatency lies between the smallest and the
\* largest entry.
LatencyWindow ==
  /\ WindowHoldsRecent
  /\ monitor.measurements # <<>> =>
       /\ monitor.currentLatency = monitor.measurements[Len(monitor.measurements)]
       /\ SeqMin(monitor.measurements) <= monitor.averageLatency
       /\ monitor.averageLatency <= SeqMax(monitor.measurements)

\* C30: the window holds the recent measurements; currentLatency is the
\* latest entry rounded to a hundredth of a millisecond, and averageLatency
\* lies between the smallest and the largest entry up to that rounding
\* (5 microseconds).
LatencyWindowRounded ==
  /\ WindowHoldsRecent
  /\ monitor.measurements # <<>> =>
       /\ monitor.currentLatency =
            RoundHundredths(monitor.measurements[Len(monitor.measurements)])
       /\ SeqMin(monitor.measurements) - 5 <= monitor.averageLatency
       /\ monitor.averageLatency <= SeqMax(monitor.measurements) + 5
  /\ monitor.measurements = <<>> =>
       monitor.averageLatency = 0 /\ monitor.currentLatency = 0

\* More than MAX_MEASUREMENTS latencies were measured, a check failed after
\* the last of them, and the window holds two different values.
LatencyWindowWitness ==
  /\ Len(monitor.stream) > MAX_MEASUREMENTS
  /\ monitor.last.done /\ monitor.last.failed
  /\ SeqMin(monitor.measurements) < SeqMax(monitor.measurements)

\* ========================================================================
\* One hook instance under changes of its props: the effects, the intervals
\* they arm and clear, and the room each piece of state comes from.
\* First definition: useRoomSync (1-287) with useLatencySync; second
\* definition: useRoomSync (288-481).  Each datum is modelled by the room
\* code it was obtained in ("none": its initial value).
\* ========================================================================
MaxChanges == 3
MaxFires == 2
MaxRuns == 2

Rooms == {"A", "B"}

TickOutcomes == {"done", "error", "none"}

\* clearInterval(id)
clearInterval(m, id) == [m EXCEPT !.timers = {t \in @ : t.id # id}]

\* setInterval(callback, ms) by an effect run for the current room code;
\* the id returned is m.nextId
setInterval(m, kind) ==
  [m EXCEPT !.timers = @ \cup {[kind |-> kind, room |-> m.roomCode,
                                id |-> m.nextId]},
            !.nextId = @ + 1]

\* Mutant: the cleanup forgets the interval without clearing it.
syncEffectCleanupForgets(m) ==
  IF m.syncCleanup
  THEN [m EXCEPT !.syncIntervalRef = 0, !.syncCleanup = FALSE]
  ELSE m

\* Cleanup of the sync-loop effect, registered by a run with a room code:
\* clearInterval(syncIntervalRef.current); syncIntervalRef.current = null
syncEffectCleanup(m) ==
  IF m.syncCleanup
  THEN IF m.syncIntervalRef # 0
       THEN [clearInterval(m, m.syncIntervalRef)
               EXCEPT !.syncIntervalRef = 0, !.syncCleanup = FALSE]
       ELSE [m EXCEPT !.syncCleanup = FALSE]
  ELSE m

\* What a tick leaves in the hook: lastSyncTime on completion, an entry of
\* syncErrors on failure.  In the first definition a completed fetch also
\* replaces syncData, which makes the sync-loop effect run again.
tickData(m, outcome) ==
  IF outcome = "done"
  THEN [m EXCEPT !.lastSyncTime = m.roomCode,
                 !.rerun = IF m.def = 1 THEN TRUE ELSE @]
  ELSE IF outcome = "error"
  THEN [m EXCEPT !.syncErrors = @ \cup {m.roomCode}]
  ELSE m

\* Body of the sync-loop effect; the tick of its performSync() call ends
\* with the given outcome.
syncEffectBody(m, outcome) ==
  IF m.roomCode = "none"
  THEN IF m.syncIntervalRef # 0
       THEN [clearInterval(m, m.syncIntervalRef) EXCEPT !.syncIntervalRef = 0]
       ELSE m
  ELSE [tickData(setInterval(m, "sync"), outcome)
          EXCEPT !.syncIntervalRef = m.nextId, !.syncCleanup = TRUE]

syncEffect(m, outcome) ==
  [syncEffectBody(syncEffectCleanup(m), outcome) EXCEPT !.rerun = FALSE]

\* A latency measurement made in the current room: RH / RM in the second
\* definition (a changed value makes the sync-loop effect run again), an
\* entry of the measurement list of useLatencySync in the first.  A failed
\* measurement leaves 0 / adds nothing.
measured(m, ok) ==
  IF ~ok THEN m
  ELSE IF m.def = 2
  THEN [m EXCEPT !.roundTrip = m.roomCode,
                 !.rerun = IF m.roundTrip # m.roomCode THEN TRUE ELSE @]
  ELSE [m EXCEPT !.measurements = @ \cup {m.roomCode}]

\* Cleanup of the latency effect: clearInterval(latencyInterval) /
\* clearInterval(intervalRef.current)
latencyEffectCleanup(m) ==
  IF m.latencyCleanup
  THEN [clearInterval(m, m.latencyIntervalRef)
          EXCEPT !.latencyIntervalRef = 0, !.latencyCleanup = FALSE]
  ELSE m

\* Body of the latency effect: initial measurement, then the interval.
latencyEffectBody(m, ok) ==
  IF m.roomCode = "none"
  THEN IF m.def = 1 /\ m.latencyIntervalRef # 0
       THEN [clearInterval(m, m.latencyIntervalRef)
               EXCEPT !.latencyIntervalRef = 0]
       ELSE m
  ELSE [measured(setInterval(m, "latency"), ok)
          EXCEPT !.latencyIntervalRef = m.nextId, !.latencyCleanup = TRUE]

latencyEffect(m, ok) == latencyEffectBody(latencyEffectCleanup(m), ok)

MountInit ==
  /\ \E def \in {1, 2}, owner \in BOOLEAN :
       mount = [mounted |-> TRUE, def |-> def, roomCode |-> "none",
                isOwner |-> owner, player |-> 1,
                timers |-> {}, nextId |-> 1,
                syncIntervalRef |-> 0, syncCleanup |-> FALSE,
                latencyIntervalRef |-> 0, latencyCleanup |-> FALSE,
                rerun |-> FALSE,
                lastSyncTime |-> "none", syncErrors |-> {},
                roundTrip |-> "none", measurements |-> {},
                stopped |-> TRUE, stale |-> FALSE,
                changes |-> 0, fires |-> 0, runs |-> 0]
  /\ RingIdle /\ SessionIdle /\ RosterIdle /\ LatencyIdle /\ WritersIdle
  /\ RoomIdle
  /\ CalcIdle

\* The roomCode prop changes (to another room or to null): both effects run.
ChangeRoom(c) ==
  /\ mount.mounted
  /\ mount.changes < MaxChanges
  /\ c # mount.roomCode
  /\ \E outcome \in TickOutcomes, ok \in BOOLEAN :
       mount' =
         [latencyEffect(syncEffect([mount EXCEPT !.roomCode = c], outcome), ok)
            EXCEPT !.changes = @ + 1,
                   !.stopped = (c = "none" \/ mount.roomCode = "none")]
  /\ UNCHANGED <<calcVars, roomVars, ring, session, roster, monitor, probe, writers>>

\* The isOwner prop changes: performSync and updateRoundTripTime change.
ChangeRole ==
  /\ mount.mounted
  /\ mount.changes < MaxChanges
  /\ \E outcome \in TickOutcomes, ok \in BOOLEAN :
       LET m == syncEffect([mount EXCEPT !.isOwner = ~@], outcome)
       IN  mount' = [(IF mount.def = 2 THEN latencyEffect(m, ok) ELSE m)
                       EXCEPT !.changes = @ + 1]
  /\ UNCHANGED <<calcVars, roomVars, ring, session, roster, monitor, probe, writers>>

\* The player prop changes: performSync changes.
ChangePlayer ==
  /\ mount.mounted
  /\ mount.changes < MaxChanges
  /\ \E outcome \in TickOutcomes :
       mount' = [syncEffect([mount EXCEPT !.player = 3 - @], outcome)
                   EXCEPT !.changes = @ + 1]
  /\ UNCHANGED <<calcVars, roomVars, ring, session, roster, monitor, probe, writers>>

\* performSync changed after a state change: the sync-loop effect runs again.
MountRunsSyncEffect ==
  /\ mount.mounted
  /\ mount.rerun
  /\ mount.runs < MaxRuns
  /\ \E outcome \in TickOutcomes :
       mount' = [syncEffect(mount, outcome) EXCEPT !.runs = @ + 1]
  /\ UNCHANGED <<calcVars, roomVars, ring, session, roster, monitor, probe, writers>>

\* An armed interval fires: a tick, or a latency measurement.
TimerFires(t) ==
  /\ t \in mount.timers
  /\ mount.fires < MaxFires
  /\ \E outcome \in TickOutcomes, ok \in BOOLEAN :
       LET m == [mount EXCEPT !.fires = @ + 1,
                              !.stale = @ \/ t.room # mount.roomCode]
       IN  mount' = IF t.kind = "sync" THEN tickData(m, outcome)
                    ELSE measured(m, ok)
  /\ UNCHANGED <<calcVars, roomVars, ring, session, roster, monitor, probe, writers>>

\* The component unmounts: every cleanup runs.
Unmount ==
  /\ mount.mounted
  /\ LET m == latencyEffectCleanup(syncEffectCleanup(mount))
     IN  mount' = [(IF m.syncIntervalRef # 0
                    THEN clearInterval(m, m.syncIntervalRef) ELSE m)
                     EXCEPT !.mounted = FALSE, !.rerun = FALSE]
  /\ UNCHANGED <<calcVars, roomVars, ring, session, roster, monitor, probe, writers>>

MountNext ==
  \/ \E c \in Rooms \cup {"none"} : ChangeRoom(c)
  \/ ChangeRole
  \/ ChangePlayer
  \/ MountRunsSyncEffect
  \/ \E t \in mount.timers : TimerFires(t)
  \/ Unmount

MountSpec == MountInit /\ [][MountNext]_vars

\* C22: in a room entered after the previous one was left (room code null in
\* between), lastSyncTime, syncErrors, RH / RM and the latency measurements
\* are initial or come from the current room.
RoomDataFresh ==
  (mount.mounted /\ mount.roomCode # "none" /\ mount.stopped) =>
     /\ mount.lastSyncTime \in {"none", mount.roomCode}
     /\ mount.syncErrors \subseteq {mount.roomCode}
     /\ mount.roundTrip \in {"none", mount.roomCode}
     /\ mount.measurements \subseteq {mount.roomCode}

ArmedTimers(kind) == {t \in mount.timers : t.kind = kind}

\* C29: at most one sync interval and at most one latency interval are
\* armed, each was armed for the current room code of a mounted hook, and
\* no interval has fired for another room code than the current one.
NoTimerLeak ==
  /\ Cardinality(ArmedTimers("sync")) <= 1
  /\ Cardinality(ArmedTimers("latency")) <= 1
  /\ \A t \in mount.timers : mount.mounted /\ t.room = mount.roomCode
  /\ ~mount.stale

\* The hook is in its second room, after a role change and an effect re-run,
\* with both intervals armed and an interval having fired.
NoTimerLeakWitness ==
  /\ mount.mounted
  /\ mount.roomCode = "B"
  /\ mount.nextId > 5
  /\ mount.fires > 0
  /\ Cardinality(mount.timers) = 2

\* ========================================================================
\* Concurrent write requests of the room owner on one room's sync record
\* (key room:sync:<code>).  Every request writes its own number as the value
\* of the fields it sets; 0 is the value stored before.
\* ========================================================================
NumWriters == 3

Writers == 1 .. NumWriters

WriteKinds == {"updatePlayback", "updateTrack", "updateVolume", "post"}

RecordFields == {"currentTrack", "position", "isPlaying", "timestamp", "volume"}

\* The fields a request of the given kind sets from its own body; a post of
\* SH / TH / RH builds the whole record.
FieldsSet(kind) ==
  IF kind = "updatePlayback" THEN {"position", "isPlaying", "timestamp"}
  ELSE IF kind = "updateTrack" THEN {"currentTrack", "position", "timestamp"}
  ELSE IF kind = "updateVolume" THEN {"volume"}
  ELSE RecordFields

\* Number of reads of the record a request makes before it writes: the
\* handler's getRoomSyncData, and updateRoomPlayback's own.
ReadsOf(kind) ==
  IF kind = "updatePlayback" THEN 2
  ELSE IF kind = "post" THEN 0
  ELSE 1

\* { ...current, <fields of the request> }
updatedSyncData(current, i, kind) ==
  [f \in RecordFields |-> IF f \in FieldsSet(kind) THEN i ELSE current[f]]

\* The concurrent requests are all of the action variant (the record is a
\* RoomSyncData) or all posts of SH / TH / RH (the record is a HostSyncData).
WriterInit ==
  /\ \E kinds \in [Writers -> WriteKinds \ {"post"}] \cup [Writers -> {"post"}] :
       writers = [started |-> TRUE,
                  store |-> [f \in RecordFields |-> 0],
                  req |-> [i \in Writers |->
                             [kind |-> kinds[i], reads |-> 0,
                              current |-> [f \in RecordFields |-> 0],
                              done |-> FALSE]]]
  /\ RingIdle /\ SessionIdle /\ RosterIdle /\ LatencyIdle /\ MountIdle
  /\ RoomIdle
  /\ CalcIdle

\* getRoomSyncData(roomCode) of request i resolves
WriterGet(i) ==
  /\ writers.started
  /\ ~writers.req[i].done
  /\ writers.req[i].reads < ReadsOf(writers.req[i].kind)
  /\ writers' = [writers EXCEPT !.req[i].reads = @ + 1,
                                !.req[i].current = writers.store]
  /\ UNCHANGED <<calcVars, roomVars, ring, session, roster, monitor, probe, mount>>

\* redis.set(key, record) of request i resolves
WriterSet(i) ==
  /\ writers.started
  /\ ~writers.req[i].done
  /\ writers.req[i].reads = ReadsOf(writers.req[i].kind)
  /\ writers' = [writers EXCEPT
                   !.store = updatedSyncData(writers.req[i].current, i,
                                             writers.req[i].kind),
                   !.req[i].done = TRUE]
  /\ UNCHANGED <<calcVars, roomVars, ring, session, roster, monitor, probe, mount>>

WriterNext ==
  \/ \E i \in Writers : WriterGet(i)
  \/ \E i \in Writers : WriterSet(i)

WriterSpec == WriterInit /\ [][WriterNext]_vars

AllWritten == writers.started /\ \A i \in Writers : writers.req[i].done

\* C24: once all concurrent write requests have completed, every field set
\* by a request holds the value set by that request or by another request
\* that sets the same field: no field is back at the value stored before.
NoLostUpdate ==
  AllWritten =>
    \A i \in Writers : \A f \in FieldsSet(writers.req[i].kind) :
       \E j \in Writers : f \in FieldsSet(writers.req[j].kind)
                          /\ writers.store[f] = j

\* ========================================================================
\* Properties of the calculators (checked under CalcSpec)
\* ========================================================================
\* C1: for a snapshot with isPlaying = false the target of
\* calculateMemberSeekClient, of calculateMemberSeek and of
\* calculateSyncedPosition is the snapshot position, whatever the member
\* time, the latencies and the smoothing history are.
PauseCorrectness ==
  (calcOut.done /\ ~calcOut.hostData.isPlaying) =>
     /\ calcOut.client = calcOut.hostData.SH
     /\ calcOut.member = calcOut.hostData.SH
     /\ calcOut.synced = calcOut.hostData.SH

PauseCorrectnessWitness ==
  /\ calcOut.done
  /\ ~calcOut.hostData.isPlaying
  /\ calcOut.hostData.SH < 0
  /\ calcOut.TM > calcOut.hostData.TH
  /\ OrZero(calcOut.hostData.RH) > 0
  /\ calcOut.RM > 0
  /\ Len(calcOut.previousSeeks) > 0

\* C2: the target of calculateMemberSeekClient and of calculateMemberSeek is
\* never negative, for any snapshot position, playing or paused.
NonNegativeTarget ==
  calcOut.done => (calcOut.client >= 0 /\ calcOut.member >= 0)

\* C6: for a playing snapshot, moving the member time D later moves the raw
\* target of both calculators by exactly D.
ElapsedExtrapolation ==
  (calcShift.done /\ calcHostData.isPlaying) =>
     /\ calcShift.clientAfter = calcShift.clientBefore + calcShift.D
     /\ calcShift.memberAfter = calcShift.memberBefore + calcShift.D

ElapsedExtrapolationWitness ==
  /\ calcShift.done
  /\ calcHostData.isPlaying
  /\ calcTM - calcShift.D < calcHostData.TH
  /\ OrZero(calcHostData.RH) > 0
  /\ calcRM > 0

\* C7: the adaptive tolerance does not decrease when the average latency
\* grows, and it lies in [500, 5000].  (Average latencies are compared by
\* their doubles RM + RH.)
ToleranceMonotoneBounded ==
  calcTol.done =>
     /\ (calcTol.RM1 + OrZero(calcTol.RH1) <= calcTol.RM2 + OrZero(calcTol.RH2)
           => calcTol.tol1 <= calcTol.tol2)
     /\ (calcTol.RM2 + OrZero(calcTol.RH2) <= calcTol.RM1 + OrZero(calcTol.RH1)
           => calcTol.tol2 <= calcTol.tol1)
     /\ calcTol.tol1 >= 500 /\ calcTol.tol1 <= 5000
     /\ calcTol.tol2 >= 500 /\ calcTol.tol2 <= 5000

\* average latency 200 against 201: across the upper threshold
ToleranceMonotoneBoundedWitness ==
  /\ calcTol.done
  /\ calcTol.RM1 + OrZero(calcTol.RH1) = 400
  /\ calcTol.RM2 + OrZero(calcTol.RH2) = 402
  /\ calcTol.tol1 < calcTol.tol2

\* C8: fed the same raw target v >= 0 on every evaluation, starting from an
\* empty history that collects the returned targets, calculateMemberSeekClient
\* returns v from the third evaluation on.
SmoothingConvergence ==
  ( /\ calcOut.done
    /\ calcOut.hostData.isPlaying
    /\ Len(calcPreviousSeeks) = Len(calcRawSeeks)
    /\ Len(calcRawSeeks) >= 3
    /\ \A i \in 1..Len(calcRawSeeks) : calcRawSeeks[i] = calcRawSeeks[1]
    /\ calcRawSeeks[1] >= 0 )
  => calcOut.client = calcRawSeeks[1]

\* C23: for a playing snapshot with fixed position and elapsed time, neither
\* calculator's target grows when RH and RM grow.
LatencySignConvention ==
  ( /\ calcLat.done
    /\ calcHostData.isPlaying
    /\ calcLat.RM1 <= calcLat.RM2
    /\ OrZero(calcLat.RH1) <= OrZero(calcLat.RH2) )
  => /\ calcLat.client2 <= calcLat.client1
     /\ calcLat.member2 <= calcLat.member1

\* The raw target and the history entries that the smoothing of the last
\* evaluation used.
SmoothingInputs ==
  {rawSeekClient(calcOut.hostData, calcOut.TM, calcOut.RM)} \cup
  {SliceLast(calcOut.previousSeeks, 3)[i] :
     i \in 1..Len(SliceLast(calcOut.previousSeeks, 3))}

\* C25: for a playing snapshot and a non-empty history (raw target and
\* history not negative, so that the final clamp does nothing), the smoothed
\* target lies between the smallest and the largest of the raw target and
\* the last three history entries.
SmoothingIsAverage ==
  ( /\ calcOut.done
    /\ calcOut.hostData.isPlaying
    /\ Len(calcOut.previousSeeks) > 0
    /\ \A x \in SmoothingInputs : x >= 0 )
  => /\ \E x \in SmoothingInputs : x <= calcOut.client
     /\ \E x \in SmoothingInputs : calcOut.client <= x

\* ========================================================================
\* Properties of the member tick and of the snapshot store (checked under Spec)
\* ========================================================================
CallsOf(t, op) == SelectSeq(t.calls, LAMBDA c : c.op = op)

\* The member tick has read a snapshot and a player state.
MemberSawBoth == tick["member"].snapshot # {} /\ tick["member"].state # {}
MemberSnapshot == CHOOSE d \in tick["member"].snapshot : TRUE
MemberState == CHOOSE s \in tick["member"].state : TRUE

\* The target of the tick, recomputed from what the tick read.
MemberTarget ==
  IF hookDef = 2
  THEN calculateMemberSeek(MemberSnapshot, tick["member"].TM, tick["member"].RM)
  ELSE MemberSnapshot.syncedPosition

MemberTolerance == IF hookDef = 2 THEN SYNC_TOLERANCE ELSE POSITION_TOLERANCE

\* The snapshot {60000, T, playing} evaluated at T + 1000 with zero latencies.
SeekScenario ==
  /\ MemberSawBoth
  /\ IF hookDef = 2
     THEN /\ MemberSnapshot.SH = 60000
          /\ MemberSnapshot.isPlaying
          /\ MemberSnapshot.TH = tick["member"].TM - 1000
          /\ OrZero(MemberSnapshot.RH) = 0
          /\ tick["member"].RM = 0
     ELSE /\ MemberSnapshot.playbackState.position = 60000
          /\ MemberSnapshot.playbackState.isPlaying
          /\ MemberSnapshot.playbackState.timestamp = lastGet.time - 1000
          /\ MemberSnapshot.userLatency = 0

\* C3: in a member tick that has a snapshot and a player state, player.seek
\* is called iff |local position - target| is strictly greater than the
\* tolerance, at most once, and with the target as its argument; in the
\* scenario {60000, T, playing}, zero latencies, evaluation at T + 1000, a
\* member at 61000 does not seek and a member at 55000 seeks to 61000.
SeekDecision ==
  MemberSawBoth =>
    LET seeks == CallsOf(tick["member"], "seek")
    IN  /\ Len(seeks) <= 1
        /\ (Len(seeks) = 1) <=>
              (Abs(MemberState.position - MemberTarget) > MemberTolerance)
        /\ \A i \in 1..Len(seeks) : seeks[i].arg = MemberTarget
        /\ (SeekScenario /\ MemberState.position = 61000) => seeks = <<>>
        /\ (SeekScenario /\ MemberState.position = 55000) =>
              seeks = <<Call("seek", 61000)>>

SeekDecisionWitness ==
  /\ SeekScenario
  /\ MemberState.position = 55000
  /\ CallsOf(tick["member"], "seek") = <<Call("seek", 61000)>>
  /\ player["member"].position = 61000

\* C4: a member tick that finds no snapshot for the room calls nothing on
\* the playback driver and leaves lastSyncTime as it was.
NoSnapshotNoOp ==
  tick["member"].outcome = "noSnapshot" =>
    /\ tick["member"].calls = <<>>
    /\ hook["member"].lastSyncTime = tick["member"].lastSyncTime0

\* the second tick finds the key expired, after a first tick that completed
NoSnapshotNoOpWitness ==
  /\ tick["member"].outcome = "noSnapshot"
  /\ tick["member"].n = 2
  /\ tick["member"].lastSyncTime0 > 0
  /\ hook["member"].lastSyncTime = tick["member"].lastSyncTime0

\* A member tick that read a snapshot and a player state has ended.
MemberTickEnded ==
  /\ MemberSawBoth
  /\ tick["member"].pc = "idle"
  /\ tick["member"].outcome \in {"done", "error"}

MemberSnapshotPlaying == snapshotIsPlaying(hookDef, MemberSnapshot)

\* The seek of the tick was issued and threw.
MemberSeekThrew ==
  /\ tick["member"].outcome = "error"
  /\ tick["member"].calls # <<>>
  /\ tick["member"].calls[Len(tick["member"].calls)].op = "seek"

\* resume exactly once iff snapshot playing and local paused, pause exactly
\* once iff snapshot not playing and local not paused
PlayPauseAsStates ==
  LET resumes == Len(CallsOf(tick["member"], "resume"))
      pauses == Len(CallsOf(tick["member"], "pause"))
  IN  /\ resumes <= 1
      /\ pauses <= 1
      /\ (resumes = 1) <=> (MemberSnapshotPlaying /\ MemberState.paused)
      /\ (pauses = 1) <=> (~MemberSnapshotPlaying /\ ~MemberState.paused)

\* C5 (as stated): in every member tick with snapshot and player state
\* present, resume is called exactly once iff the snapshot is playing and the
\* local player is paused, pause exactly once iff the snapshot is not playing
\* and the local player is not paused, and neither when the states agree.
PlayPauseReconciliation == MemberTickEnded => PlayPauseAsStates

\* C5 (amended): the same, for every such tick whose seek, if one was issued,
\* did not throw; a tick whose seek throws is aborted and calls neither
\* resume nor pause.  Every tick decides afresh from the state it reads, so a
\* mismatch that is still there gets its command again in the next tick.
PlayPauseReconciliationUnlessSeekThrows ==
  MemberTickEnded =>
    IF MemberSeekThrew
    THEN /\ CallsOf(tick["member"], "resume") = <<>>
         /\ CallsOf(tick["member"], "pause") = <<>>
    ELSE PlayPauseAsStates

\* the second tick resumes again after the first tick's command failed
PlayPauseReconciliationWitness ==
  /\ MemberTickEnded
  /\ tick["member"].n = 2
  /\ hook["member"].syncErrors = <<"Sync error">>
  /\ MemberSnapshotPlaying
  /\ MemberState.paused
  /\ Len(CallsOf(tick["member"], "seek")) = 1
  /\ Len(CallsOf(tick["member"], "resume")) = 1
  /\ ~player["member"].paused

\* C9: the member tick (syncToHost) seeks iff |local position - target| is
\* greater than getAdaptiveSyncTolerance(RM, RH) for the RM of the tick and
\* the RH of the snapshot.
AdaptiveToleranceUsed ==
  (hookDef = 2 /\ MemberSawBoth) =>
    ( (CallsOf(tick["member"], "seek") # <<>>) <=>
      (Abs(MemberState.position - MemberTarget)
         > getAdaptiveSyncTolerance(tick["member"].RM, MemberSnapshot.RH)) )

\* C10: a get that follows a landed store of the owner, with no write in
\* between and before the key expires, returns the stored position, isPlaying
\* and RH, and a TH that is not earlier than the start of the store call.
PublisherRoundTrip ==
  ( /\ hookDef = 2
    /\ lastGet.done
    /\ lastGet.store.done
    /\ lastGet.time < lastGet.store.landed + ROOM_TTL * 1000 )
  => /\ lastGet.value # {}
     /\ \A v \in lastGet.value :
          /\ v.SH = lastGet.store.SH
          /\ v.isPlaying = lastGet.store.isPlaying
          /\ v.RH = lastGet.store.RH
          /\ v.TH >= lastGet.store.start

\* a get one second after a store that took a measured RH along
PublisherRoundTripWitness ==
  /\ hookDef = 2
  /\ lastGet.done
  /\ lastGet.store.done
  /\ lastGet.store.RH = Num(600)
  /\ lastGet.time = lastGet.store.landed + 1000
  /\ \E v \in lastGet.value : v.SH = 60000 /\ v.RH = Num(600)

\* ========================================================================
\* Properties of the owner tick (checked under OwnerSpec)
\* ========================================================================
\* An owner tick has ended.
OwnerTickEnded ==
  /\ tick["owner"].pc = "idle"
  /\ tick["owner"].outcome # "none"

\* C11: every owner tick in which the player reported a state sent one
\* snapshot write (one POST /api/rooms/sync) before it ended.
OwnerTickPublishes ==
  (OwnerTickEnded /\ tick["owner"].state # {}) => tick["owner"].posts = 1

\* The snapshot write of the ended owner tick failed: the request threw, or
\* the endpoint answered with an error status.
OwnerWriteFailed ==
  /\ OwnerTickEnded
  /\ tick["owner"].posts = 1
  /\ (tick["owner"].outcome = "error" \/ tick["owner"].status >= 400)

\* C12: an owner tick whose snapshot write failed has appended one entry to
\* syncErrors and has left lastSyncTime as it was.
PublisherFailureHandling ==
  OwnerWriteFailed =>
    /\ Len(hook["owner"].syncErrors) = Len(tick["owner"].syncErrors0) + 1
    /\ hook["owner"].lastSyncTime = tick["owner"].lastSyncTime0

\* ========================================================================
\* Failure handling of the member tick (checked under Spec)
\* ========================================================================
\* A driver call of the ended member tick threw.
MemberDriverThrew ==
  /\ tick["member"].pc = "idle"
  /\ tick["member"].outcome = "error"

MemberLastCall == tick["member"].calls[Len(tick["member"].calls)]

\* C13: when getCurrentState, seek, resume or pause throws in a member tick,
\* the tick ends with exactly one entry appended to syncErrors, with the
\* throwing call as its last driver call and with lastSyncTime as it was; a
\* tick that read snapshot and state and completed has set lastSyncTime.
ReconcilerFailureHandling ==
  /\ MemberDriverThrew =>
       /\ hook["member"].syncErrors =
            pushError(tick["member"].syncErrors0, "Sync error")
       /\ hook["member"].lastSyncTime = tick["member"].lastSyncTime0
       /\ ~hook["member"].isSyncingRef
       /\ tick["member"].calls # <<>>
       /\ MemberLastCall.op = "getCurrentState" => Len(tick["member"].calls) = 1
       /\ MemberLastCall.op = "seek" =>
            /\ CallsOf(tick["member"], "resume") = <<>>
            /\ CallsOf(tick["member"], "pause") = <<>>
  /\ (tick["member"].pc = "idle" /\ tick["member"].outcome = "done") =>
       /\ hook["member"].lastSyncTime >= tick["member"].TM
       /\ hook["member"].lastSyncTime > 0
       /\ hook["member"].syncErrors = tick["member"].syncErrors0

\* the seek of a second tick throws after a first tick that completed
ReconcilerFailureHandlingWitness ==
  /\ MemberDriverThrew
  /\ tick["member"].n = 2
  /\ tick["member"].lastSyncTime0 > 0
  /\ MemberLastCall.op = "seek"
  /\ hook["member"].syncErrors = <<"Sync error">>
  /\ hook["member"].lastSyncTime = tick["member"].lastSyncTime0

\* C14: a tick that finds no snapshot in the store (the sync endpoint answers
\* 404) leaves syncErrors as it was.
MissingDataIsNoError ==
  \A p \in Participants :
    (tick[p].pc = "idle" /\ tick[p].outcome = "noSnapshot") =>
       hook[p].syncErrors = tick[p].syncErrors0

\* The participant's first tick has not (yet) completed successfully.
FirstTickPending(p) ==
  \/ tick[p].n = 0
  \/ tick[p].n = 1 /\ ~(tick[p].pc = "idle" /\ tick[p].outcome = "done")

\* C17: isConnected is false until a first tick has completed successfully;
\* a first tick in flight, failed or aborted leaves it false.
ConnectedAfterFirstTick ==
  \A p \in Participants : FirstTickPending(p) => ~hook[p].isConnected

\* C26: when no member tick is in flight isSyncingRef is false, whichever way
\* the last tick ended, and no tick started then is skipped by the guard.
GuardReleased ==
  /\ tick["member"].pc = "idle" => ~hook["member"].isSyncingRef
  /\ tick["member"].outcome # "skipped"

\* A second member tick has entered its body after a tick whose driver call
\* threw.
GuardReleasedWitness ==
  /\ tick["member"].n = 2
  /\ tick["member"].pc \notin {"idle", "fetch"}
  /\ tick["member"].syncErrors0 = <<"Sync error">>
  /\ hook["member"].isSyncingRef

====
